---- MODULE Spec2Model ----
(***************************************************************************)
(* The dispatch cycle of src/index.js: checkAndSendNotifications and the   *)
(* GET /trigger-notifications handler that runs it.  The notification      *)
(* store (collection group pushNotifications), the address registry        *)
(* (users/{uid}/fcmTokens) and the FCM gateway are the environment: every  *)
(* awaited store operation may reject, every gateway call either returns   *)
(* one outcome per address or rejects as a whole.                          *)
(***************************************************************************)
EXTENDS Integers, Sequences, FiniteSets, TLC

\* ------------------------------------------------------------ bounds
NumNotifs == 2          \* notification documents in the store
NumTokens == 2          \* address documents that exist at all
MaxRuns   == 2          \* invocations of the trigger endpoint
MaxFaults == 2          \* rejected store operations in one behaviour

\* --------------------------------------------------------- constants
W == 60000              \* the look-back window, in ms

Users    == {"u1", "u2"}
Notifs   == 1..NumNotifs
Tokens   == 1..NumTokens
Cycles   == 1..MaxRuns
NoDevice == "none"                       \* deviceId undefined / falsy
Devices  == {"x", "y"}
Now0     == W + 1                        \* Date.now() of the first cycle
FireTimes == {1, W + 1, W + 2}           \* fireAt values in the store
NoUser   == "nobody"                     \* an address that is not registered

NotRead  == <<0>>                        \* no snapshot read for the user

NoteNoTokens   == "No FCM tokens available"
NoteDeviceFail == "Failed to send to creating device"
NoteNoMatch    == "Sent to all available devices (no matching device token)"
NoteNoneAtAll  == "No tokens available for this user"

VARIABLES
    nOwner,     \* notification -> user id (pathParts[1] of the document)
    nFireAt,    \* notification -> fireAt
    nDevice,    \* notification -> data.deviceId, or NoDevice
    notif,      \* notification -> the mutable fields of the document
    tOwner,     \* address -> the user under whose fcmTokens it was enrolled
    tDevice,    \* address -> data.deviceId of the address document
    registry,   \* the address documents that exist now
    deletes,    \* delete() promises in flight: records [user, token]
    dropped,    \* deletions that rejected (logged by .catch, nothing else)
    cy,         \* cycle -> the local state of that invocation
    calls,      \* cycle -> the sendEachForMulticast calls it made, in order
    writes,     \* cycle -> the notification updates it applied, in order
    fetched,    \* cycle -> user -> the fcmTokens snapshot it read for the user
    issued,     \* cycle -> the [user, token] deletions it issued
    started,    \* number of invocations so far
    faults      \* store operations rejected so far

vars == <<nOwner, nFireAt, nDevice, notif, tOwner, tDevice, registry,
          deletes, dropped, cy, calls, writes, fetched, issued, started, faults>>

env == <<nOwner, nFireAt, nDevice, tOwner, tDevice>>

\* ------------------------------------------------------------ helpers
Range(s) == {s[i] : i \in DOMAIN s}

AllNotifs == [i \in 1..NumNotifs |-> i]
AllTokens == [i \in 1..NumTokens |-> i]

FreshDoc ==
    [status |-> "scheduled", note |-> "", sentToDevice |-> NoDevice,
     successCount |-> -1, failureCount |-> -1, error |-> "",
     sentAt |-> FALSE, failedAt |-> FALSE]

IdleCycle ==
    [pc |-> "idle", now |-> 0, due |-> <<>>, users |-> <<>>, gi |-> 0,
     tokens |-> <<>>, ni |-> 0, totalSent |-> 0, responses |-> <<>>,
     error |-> "", http |-> 0, result |-> -1]

\* the window start with the look-back taken twice
oneMinuteAgoTwice(now) == now - W - W

oneMinuteAgo(now) == now - W

\* the due query without its status clause
IsDueAnyStatus(n, now) ==
    /\ nFireAt[n] <= now
    /\ nFireAt[n] >= oneMinuteAgo(now)

\* the three where() clauses of the due query
IsDue(n, now) ==
    /\ nFireAt[n] <= now
    /\ nFireAt[n] >= oneMinuteAgo(now)
    /\ notif[n].status = "scheduled"

dueNotificationsSnapshot(now) == SelectSeq(AllNotifs, LAMBDA n : IsDue(n, now))

\* Map keys in insertion order: the order of first appearance in the snapshot
RECURSIVE GroupKeys(_, _)
GroupKeys(due, acc) ==
    IF due = <<>> THEN acc
    ELSE LET u == nOwner[Head(due)]
         IN  GroupKeys(Tail(due),
                       IF u \in Range(acc) THEN acc ELSE Append(acc, u))

notificationsByUser(due, u) == SelectSeq(due, LAMBDA n : nOwner[n] = u)

\* the fallback list taken to be every token of the user
otherTokensAll(toks, dev) == toks

\* the address read over every user's fcmTokens collection
tokensSnapshotAnyOwner(u) ==
    SelectSeq(AllTokens, LAMBDA t : t \in registry)

\* the documents of users/{u}/fcmTokens, in document order
tokensSnapshot(u) ==
    SelectSeq(AllTokens, LAMBDA t : t \in registry /\ tOwner[t] = u)

deviceTokens(toks, dev) == SelectSeq(toks, LAMBDA t : tDevice[t] = dev)
otherTokens(toks, dev)  == SelectSeq(toks, LAMBDA t : tDevice[t] # dev)

\* every per-address outcome list the gateway can return for a target list
Responses(targets) == [1..Len(targets) -> BOOLEAN]

successCount(responses) == Cardinality({i \in DOMAIN responses : responses[i]})
failureCount(responses) == Cardinality({i \in DOMAIN responses : ~responses[i]})

\* responses.forEach((resp, idx) => if (!resp.success) ... list[idx] ...)
failedTokens(list, responses) ==
    {list[i] : i \in {j \in DOMAIN responses : ~responses[j]}}

userId(c)            == cy[c].users[cy[c].gi]
userNotifications(c) == notificationsByUser(cy[c].due, userId(c))

\* the user's notifications taken from the end of the list
notificationFromEnd(c) ==
    userNotifications(c)[Len(userNotifications(c)) - cy[c].ni + 1]

notification(c)      == userNotifications(c)[cy[c].ni]
creatingDeviceId(c)  == nDevice[notification(c)]

\* --------------------------------------------------------------- init
\* The store holds any notifications and any addresses; the two users are
\* interchangeable, so the first notification is taken to be u1's.
Init ==
    /\ nOwner  \in {f \in [Notifs -> Users] : f[1] = "u1"}
    /\ nFireAt \in [Notifs -> FireTimes]
    /\ nDevice \in [Notifs -> {NoDevice, "x"}]
    /\ notif = [n \in Notifs |-> FreshDoc]
    /\ tOwner  \in [Tokens -> Users \cup {NoUser}]
    /\ tDevice \in [Tokens -> Devices]
    /\ registry = {t \in Tokens : tOwner[t] # NoUser}
    /\ deletes = {}
    /\ dropped = {}
    /\ cy = [c \in Cycles |-> IdleCycle]
    /\ calls = [c \in Cycles |-> <<>>]
    /\ writes = [c \in Cycles |-> <<>>]
    /\ fetched = [c \in Cycles |-> [u \in Users |-> NotRead]]
    /\ issued = [c \in Cycles |-> {}]
    /\ started = 0
    /\ faults = 0

\* ------------------------------------------------- the cycle's steps
Finished == {"returned", "raised", "rejected"}

\* Date.now() of the c-th invocation
Now(c) == Now0 + (c - 1)

\* return totalSent; the handler answers 200 with sent: result
Return(r) ==
    [r EXCEPT !.pc = "returned", !.result = r.totalSent, !.http = 200,
              !.responses = <<>>, !.tokens = <<>>]

\* an outer catch that logs the error and returns the count
RaiseSwallowed(r, error) == Return([r EXCEPT !.error = error])

\* the outer catch: log and rethrow; the handler answers 500
Raise(r, error) ==
    [r EXCEPT !.pc = "raised", !.http = 500, !.error = error,
              !.responses = <<>>]

\* the end of one iteration of the notification loop: the next
\* notification of the user, else the next user, else the return
Advance(c, r) ==
    IF r.ni < Len(userNotifications(c))
    THEN [r EXCEPT !.ni = @ + 1, !.responses = <<>>, !.error = "",
                   !.pc = IF r.tokens = <<>> THEN "notokens" ELSE "route"]
    ELSE IF r.gi < Len(r.users)
    THEN [r EXCEPT !.gi = @ + 1, !.ni = 0, !.tokens = <<>>,
                   !.responses = <<>>, !.error = "", !.pc = "fetch"]
    ELSE Return([r EXCEPT !.error = ""])

\* the no-token mark written as a failure
UpdateNoTokensAsFailed(d) ==
    [d EXCEPT !.status = "failed", !.failedAt = TRUE, !.note = NoteNoneAtAll]

\* notification.ref.update({...}): only the named fields change
UpdateNoTokens(d) ==
    [d EXCEPT !.status = "sent", !.sentAt = TRUE, !.note = NoteNoTokens]

UpdateSent(d, responses) ==
    [d EXCEPT !.status = "sent", !.sentAt = TRUE,
              !.successCount = successCount(responses),
              !.failureCount = failureCount(responses)]

\* the failure update without its status field
UpdateFailedKeepsStatus(d, error) ==
    [d EXCEPT !.error = error, !.failedAt = TRUE]

UpdateFailed(d, error) ==
    [d EXCEPT !.status = "failed", !.error = error, !.failedAt = TRUE]

\* the delete() calls started for the failed addresses of one response
Removals(u, list, responses) ==
    {[user |-> u, token |-> t] : t \in failedTokens(list, responses)}

Call(c, kind, targets, ok, responses) ==
    [n |-> notification(c), kind |-> kind, targets |-> targets, ok |-> ok,
     responses |-> responses, gone |-> Range(targets) \ registry]

Written(c, n) ==
    writes' = [writes EXCEPT ![c] = Append(@, [n |-> n, status |-> notif'[n].status])]

\* GET /trigger-notifications with a wrong or missing secret
TriggerUnauthorized(c) ==
    /\ cy[c].pc = "idle"
    /\ cy' = [cy EXCEPT ![c] = [@ EXCEPT !.pc = "rejected", !.http = 401]]
    /\ started' = c
    /\ UNCHANGED <<env, notif, registry, deletes, dropped, calls, writes,
                   fetched, issued, faults>>

\* the due query resolves
Query(c) ==
    /\ cy[c].pc = "idle"
    /\ LET due == dueNotificationsSnapshot(Now(c))
           r   == [cy[c] EXCEPT !.now = Now(c), !.due = due]
       IN  cy' = [cy EXCEPT ![c] =
                    IF due = <<>> THEN Return(r)
                    ELSE [r EXCEPT !.users = GroupKeys(due, <<>>), !.gi = 1,
                                   !.pc = "fetch"]]
    /\ started' = c
    /\ UNCHANGED <<env, notif, registry, deletes, dropped, calls, writes,
                   fetched, issued, faults>>

\* the due query rejects
QueryFail(c) ==
    /\ cy[c].pc = "idle"
    /\ faults < MaxFaults
    /\ cy' = [cy EXCEPT ![c] = Raise([@ EXCEPT !.now = Now(c)], "query")]
    /\ started' = c
    /\ faults' = faults + 1
    /\ UNCHANGED <<env, notif, registry, deletes, dropped, calls, writes,
                   fetched, issued>>

\* the fcmTokens read going on to the routing with an empty snapshot too
FetchTokensNoEmptyCheck(c) ==
    /\ cy[c].pc = "fetch"
    /\ LET toks == tokensSnapshot(userId(c))
       IN  /\ cy' = [cy EXCEPT ![c] =
                       [@ EXCEPT !.tokens = toks, !.ni = 1, !.pc = "route"]]
           /\ fetched' = [fetched EXCEPT ![c][userId(c)] = toks]
    /\ UNCHANGED <<env, notif, registry, deletes, dropped, calls, writes, issued,
                   started, faults>>

\* the fcmTokens read of the current user resolves
FetchTokens(c) ==
    /\ cy[c].pc = "fetch"
    /\ LET toks == tokensSnapshot(userId(c))
       IN  /\ cy' = [cy EXCEPT ![c] =
                       [@ EXCEPT !.tokens = toks, !.ni = 1,
                                 !.pc = IF Len(toks) = 0 THEN "notokens"
                                        ELSE "route"]]
           /\ fetched' = [fetched EXCEPT ![c][userId(c)] = toks]
    /\ UNCHANGED <<env, notif, registry, deletes, dropped, calls, writes, issued,
                   started, faults>>

\* the fcmTokens read rejects: nothing catches it before the outer catch
FetchTokensFail(c) ==
    /\ cy[c].pc = "fetch"
    /\ faults < MaxFaults
    /\ cy' = [cy EXCEPT ![c] = Raise(@, "store")]
    /\ faults' = faults + 1
    /\ UNCHANGED <<env, notif, registry, deletes, dropped, calls, writes,
                   fetched, issued, started>>

\* tokens.length === 0: mark the next notification of the user sent
MarkNoTokens(c) ==
    /\ cy[c].pc = "notokens"
    /\ LET n == notification(c)
       IN  /\ notif' = [notif EXCEPT ![n] = UpdateNoTokens(@)]
           /\ Written(c, n)
    /\ cy' = [cy EXCEPT ![c] = Advance(c, @)]
    /\ UNCHANGED <<env, registry, deletes, dropped, calls, fetched, issued, started,
                   faults>>

\* one sendEachForMulticast call of cycle c and what the cycle does with the
\* answer: per-address outcomes are counted and kept for the status write,
\* a rejection enters the catch block
Send(c, kind, targets, okPc, failPc) ==
    \/ \E responses \in Responses(targets) :
          /\ calls' = [calls EXCEPT ![c] =
                         Append(@, Call(c, kind, targets, TRUE, responses))]
          /\ cy' = [cy EXCEPT ![c] =
                      [@ EXCEPT !.totalSent = @ + successCount(responses),
                                !.responses = responses, !.pc = okPc]]
    \/ /\ calls' = [calls EXCEPT ![c] =
                      Append(@, Call(c, kind, targets, FALSE, <<>>))]
       /\ cy' = [cy EXCEPT ![c] = [@ EXCEPT !.error = "gateway", !.pc = failPc]]

\* no deviceId on the notification: send to all tokens of the snapshot
SendBroadcast(c) ==
    /\ cy[c].pc = "route"
    /\ creatingDeviceId(c) = NoDevice
    /\ Send(c, "broadcast", cy[c].tokens, "sentBroadcast", "failedBroadcast")
    /\ UNCHANGED <<env, notif, registry, deletes, dropped, writes, fetched, issued,
                   started, faults>>

\* deviceId set and a token of that device in the snapshot
SendDevice(c) ==
    /\ cy[c].pc = "route"
    /\ creatingDeviceId(c) # NoDevice
    /\ Len(deviceTokens(cy[c].tokens, creatingDeviceId(c))) > 0
    /\ Send(c, "device", deviceTokens(cy[c].tokens, creatingDeviceId(c)),
            "sentDevice", "failedDevice")
    /\ UNCHANGED <<env, notif, registry, deletes, dropped, writes, fetched, issued,
                   started, faults>>

\* deviceId set and no token of that device: the other tokens, or, with
\* none of those either, the failed mark without a send
SendOthers(c) ==
    /\ cy[c].pc = "route"
    /\ creatingDeviceId(c) # NoDevice
    /\ Len(deviceTokens(cy[c].tokens, creatingDeviceId(c))) = 0
    /\ IF Len(otherTokens(cy[c].tokens, creatingDeviceId(c))) > 0
       THEN /\ Send(c, "others", otherTokens(cy[c].tokens, creatingDeviceId(c)),
                    "sentOthers", "failedOthers")
            /\ UNCHANGED <<notif, writes>>
       ELSE /\ notif' = [notif EXCEPT ![notification(c)] =
                           [@ EXCEPT !.status = "failed", !.note = NoteNoneAtAll,
                                     !.failedAt = TRUE]]
            /\ Written(c, notification(c))
            /\ cy' = [cy EXCEPT ![c] = Advance(c, @)]
            /\ UNCHANGED calls
    /\ UNCHANGED <<env, registry, deletes, dropped, fetched, issued, started, faults>>

\* the status write after per-address outcomes, then the fire-and-forget
\* deletions of the addresses reported failed
Reconcile(c, n, doc, list) ==
    /\ notif' = [notif EXCEPT ![n] = doc]
    /\ Written(c, n)
    /\ deletes' = deletes \cup Removals(userId(c), list, cy[c].responses)
    /\ issued' = [issued EXCEPT ![c] =
                    @ \cup Removals(userId(c), list, cy[c].responses)]
    /\ cy' = [cy EXCEPT ![c] = Advance(c, @)]
    /\ UNCHANGED <<env, registry, dropped, calls, fetched, started, faults>>

UpdateSentBroadcast(c) ==
    /\ cy[c].pc = "sentBroadcast"
    /\ Reconcile(c, notification(c),
                 UpdateSent(notif[notification(c)], cy[c].responses),
                 cy[c].tokens)

UpdateSentDevice(c) ==
    /\ cy[c].pc = "sentDevice"
    /\ Reconcile(c, notification(c),
                 [UpdateSent(notif[notification(c)], cy[c].responses)
                    EXCEPT !.sentToDevice = creatingDeviceId(c)],
                 deviceTokens(cy[c].tokens, creatingDeviceId(c)))

UpdateSentOthers(c) ==
    /\ cy[c].pc = "sentOthers"
    /\ Reconcile(c, notification(c),
                 [UpdateSent(notif[notification(c)], cy[c].responses)
                    EXCEPT !.note = NoteNoMatch],
                 otherTokens(cy[c].tokens, creatingDeviceId(c)))

\* the pc a rejected 'sent' write leaves the cycle at: the catch block of
\* the try that holds both the send and the write
CatchOf(pc) ==
    CASE pc = "sentBroadcast" -> "failedBroadcast"
      [] pc = "sentDevice"    -> "failedDevice"
      [] pc = "sentOthers"    -> "failedOthers"

\* the 'sent' write rejects: the enclosing catch takes it for a send error
UpdateSentRejected(c) ==
    /\ cy[c].pc \in {"sentBroadcast", "sentDevice", "sentOthers"}
    /\ faults < MaxFaults
    /\ faults' = faults + 1
    /\ cy' = [cy EXCEPT ![c] =
                [@ EXCEPT !.error = "store", !.pc = CatchOf(cy[c].pc)]]
    /\ UNCHANGED <<env, notif, registry, deletes, dropped, calls, writes,
                   fetched, issued, started>>

\* catch of the broadcast and of the no-match send: mark failed
UpdateFailedCatch(c) ==
    /\ cy[c].pc \in {"failedBroadcast", "failedOthers"}
    /\ notif' = [notif EXCEPT ![notification(c)] = UpdateFailed(@, cy[c].error)]
    /\ Written(c, notification(c))
    /\ cy' = [cy EXCEPT ![c] = Advance(c, @)]
    /\ UNCHANGED <<env, registry, deletes, dropped, calls, fetched, issued, started,
                   faults>>

\* catch of the send to the creating device: mark failed, then try the
\* other tokens when there are any
UpdateFailedDevice(c) ==
    /\ cy[c].pc = "failedDevice"
    /\ notif' = [notif EXCEPT ![notification(c)] =
                   [UpdateFailed(@, cy[c].error) EXCEPT !.note = NoteDeviceFail]]
    /\ Written(c, notification(c))
    /\ cy' = [cy EXCEPT ![c] =
                IF Len(otherTokens(cy[c].tokens, creatingDeviceId(c))) > 0
                THEN [@ EXCEPT !.pc = "fallback", !.responses = <<>>]
                ELSE Advance(c, @)]
    /\ UNCHANGED <<env, registry, deletes, dropped, calls, fetched, issued, started,
                   faults>>

\* the secondary send with its successes left out of the count
SendFallbackUncounted(c) ==
    /\ cy[c].pc = "fallback"
    /\ LET targets == otherTokens(cy[c].tokens, creatingDeviceId(c))
       IN  \/ \E responses \in Responses(targets) :
                 /\ calls' = [calls EXCEPT ![c] =
                       Append(@, Call(c, "fallback", targets, TRUE, responses))]
                 /\ cy' = [cy EXCEPT ![c] = Advance(c, @)]
           \/ /\ calls' = [calls EXCEPT ![c] =
                       Append(@, Call(c, "fallback", targets, FALSE, <<>>))]
              /\ cy' = [cy EXCEPT ![c] = Advance(c, @)]
    /\ UNCHANGED <<env, notif, registry, deletes, dropped, writes, fetched, issued,
                   started, faults>>

\* the secondary send to the other tokens: its successes are counted, its
\* rejection is logged, and either way the loop goes on
SendFallback(c) ==
    /\ cy[c].pc = "fallback"
    /\ LET targets == otherTokens(cy[c].tokens, creatingDeviceId(c))
       IN  \/ \E responses \in Responses(targets) :
                 /\ calls' = [calls EXCEPT ![c] =
                       Append(@, Call(c, "fallback", targets, TRUE, responses))]
                 /\ cy' = [cy EXCEPT ![c] =
                       Advance(c, [@ EXCEPT !.totalSent =
                                              @ + successCount(responses)])]
           \/ /\ calls' = [calls EXCEPT ![c] =
                       Append(@, Call(c, "fallback", targets, FALSE, <<>>))]
              /\ cy' = [cy EXCEPT ![c] = Advance(c, @)]
    /\ UNCHANGED <<env, notif, registry, deletes, dropped, writes, fetched, issued,
                   started, faults>>

\* a rejected status write of a catch block that reached the store anyway
UpdateRejectedApplied(c) ==
    /\ cy[c].pc \in {"notokens", "failedBroadcast", "failedDevice",
                     "failedOthers"}
    /\ faults < MaxFaults
    /\ faults' = faults + 1
    /\ notif' = [notif EXCEPT ![notification(c)] = UpdateFailed(@, cy[c].error)]
    /\ cy' = [cy EXCEPT ![c] = Raise(@, "store")]
    /\ UNCHANGED <<env, registry, deletes, dropped, calls, writes,
                   fetched, issued, started>>

\* a status write outside any try (no tokens) or inside a catch rejects:
\* the error reaches the outer catch and the cycle raises
UpdateRejected(c) ==
    /\ cy[c].pc \in {"notokens", "failedBroadcast", "failedDevice",
                     "failedOthers"}
    /\ faults < MaxFaults
    /\ faults' = faults + 1
    /\ cy' = [cy EXCEPT ![c] = Raise(@, "store")]
    /\ UNCHANGED <<env, notif, registry, deletes, dropped, calls, writes,
                   fetched, issued, started>>

\* a delete() in flight resolves: the address document is gone
DeleteToken ==
    /\ \E d \in deletes :
          /\ deletes' = deletes \ {d}
          /\ registry' = IF tOwner[d.token] = d.user
                         THEN registry \ {d.token} ELSE registry
    /\ UNCHANGED <<env, notif, dropped, cy, calls, writes, fetched, issued,
                   started, faults>>

\* a rejected delete() thrown into the invocations that are running
DeleteTokenErrorEscalated ==
    /\ faults < MaxFaults
    /\ \E d \in deletes :
          /\ deletes' = deletes \ {d}
          /\ dropped' = dropped \cup {d}
    /\ faults' = faults + 1
    /\ cy' = [c \in Cycles |->
                IF cy[c].pc \in {"idle", "returned", "raised", "rejected"}
                THEN cy[c] ELSE Raise(cy[c], "delete")]
    /\ UNCHANGED <<env, notif, registry, calls, writes, fetched, issued,
                   started>>

\* a delete() in flight rejects: .catch logs the error and nothing else
DeleteTokenError ==
    /\ faults < MaxFaults
    /\ \E d \in deletes :
          /\ deletes' = deletes \ {d}
          /\ dropped' = dropped \cup {d}
    /\ faults' = faults + 1
    /\ UNCHANGED <<env, notif, registry, cy, calls, writes, fetched, issued,
                   started>>

\* ------------------------------------------------- specifications
\* the trigger is invoked when no earlier invocation is still running
CanStart(c) ==
    /\ c = started + 1
    /\ \A d \in 1..started : cy[d].pc \in Finished

\* the trigger is invoked whatever earlier invocations are doing
CanStartOverlap(c) == c = started + 1

\* the steps of a running cycle whose awaited operation resolves
Step(c) ==
    \/ FetchTokens(c)
    \/ MarkNoTokens(c)
    \/ SendBroadcast(c)
    \/ SendDevice(c)
    \/ SendOthers(c)
    \/ UpdateSentBroadcast(c)
    \/ UpdateSentDevice(c)
    \/ UpdateSentOthers(c)
    \/ UpdateFailedCatch(c)
    \/ UpdateFailedDevice(c)
    \/ SendFallback(c)

\* the steps of a running cycle whose awaited store operation rejects
Fault(c) ==
    \/ FetchTokensFail(c)
    \/ UpdateSentRejected(c)
    \/ UpdateRejected(c)

Next ==
    \/ \E c \in Cycles : CanStart(c) /\ TriggerUnauthorized(c)
    \/ \E c \in Cycles : CanStart(c) /\ Query(c)
    \/ \E c \in Cycles : CanStart(c) /\ QueryFail(c)
    \/ \E c \in Cycles : Step(c)
    \/ \E c \in Cycles : Fault(c)
    \/ DeleteToken
    \/ DeleteTokenError

\* overlapping invocations, the store answering every operation
NextOverlap ==
    \/ \E c \in Cycles : CanStartOverlap(c) /\ Query(c)
    \/ \E c \in Cycles : Step(c)
    \/ DeleteToken

Spec == Init /\ [][Next]_vars

\* overlap matters for the notifications both invocations find due
InitOverlap == Init /\ \A n \in Notifs : nFireAt[n] = Now0

SpecOverlap == InitOverlap /\ [][NextOverlap]_vars

\* ------------------------------------------------- reading the logs
Terminal == {"sent", "failed"}

IndexOf(seq, x) == CHOOSE i \in DOMAIN seq : seq[i] = x

\* the calls cycle c made for notification n, in order
CallsFor(c, n) == SelectSeq(calls[c], LAMBDA k : k.n = n)

\* the notifications cycle c updated
WrittenBy(c) == {writes[c][i].n : i \in DOMAIN writes[c]}

\* the notifications cycle c handed to the gateway
CalledBy(c) == {calls[c][i].n : i \in DOMAIN calls[c]}

Selected(c) == Range(cy[c].due)

InWindow(n, c) == Now(c) - W <= nFireAt[n] /\ nFireAt[n] <= Now(c)

Running(c) == cy[c].pc \notin ({"idle"} \cup Finished)

\* the loop of cycle c has finished its iteration for notification n
Passed(c, n) ==
    /\ n \in Selected(c)
    /\ \/ cy[c].pc = "returned"
       \/ LET g == IndexOf(cy[c].users, nOwner[n])
              k == IndexOf(notificationsByUser(cy[c].due, nOwner[n]), n)
          IN  g < cy[c].gi \/ (g = cy[c].gi /\ k < cy[c].ni)

\* the snapshot cycle c read for the owner of n
SnapshotFor(c, n) == fetched[c][nOwner[n]]

\* --------------------------------------------------------------- C1
\* C1: whenever a cycle has returned a count, every notification its due
\* query selected has status sent or failed; none is still scheduled.
C1_SelectedAreTerminal ==
    \A c \in Cycles :
        cy[c].pc = "returned" =>
            \A n \in Selected(c) : notif[n].status \in Terminal

\* a returned cycle that selected two notifications, one recorded sent
\* and one recorded failed after a wholesale gateway failure
C1_Witness ==
    \E c \in Cycles :
        /\ cy[c].pc = "returned"
        /\ \E n, m \in Selected(c) :
              /\ notif[n].status = "sent"
              /\ notif[m].status = "failed"
              /\ \E i \in DOMAIN calls[c] : calls[c][i].n = m /\ ~calls[c][i].ok

\* --------------------------------------------------------------- C2
\* C2: when invocations overlap, the gateway is called for a given
\* notification by at most one of the cycles.
C2_NoDoubleSend ==
    \A n \in Notifs : Cardinality({c \in Cycles : n \in CalledBy(c)}) <= 1

\* --------------------------------------------------------------- C3
\* C3 as stated: over non-overlapping cycles every notification is handed
\* to the gateway in at most one cycle, and a cycle that follows a
\* returned one with no new due notification returns 0 and touches nothing.
C3_DispatchedInOneCycle ==
    /\ \A n \in Notifs : \A c, d \in Cycles :
          n \in CalledBy(c) /\ n \in CalledBy(d) => c = d
    /\ \A c, d \in Cycles :
          /\ d = c + 1
          /\ cy[c].pc = "returned"
          /\ cy[d].pc \in {"returned", "raised"} /\ cy[d].error # "query"
          /\ \A n \in Notifs : InWindow(n, d) => InWindow(n, c)
          => /\ cy[d].result = 0
             /\ calls[d] = <<>> /\ writes[d] = <<>> /\ issued[d] = {}

\* C3 as amended: a notification whose status a cycle has written is never
\* selected by a later cycle, a cycle calls the gateway and writes only for
\* notifications it selected, a notification is handed to the gateway by
\* two cycles only when the earlier one raised without writing its status,
\* and a cycle that follows a returned one with no new due notification
\* returns 0 with no gateway call, no write and no deletion.
C3_NeverReselected ==
    /\ \A c \in Cycles : CalledBy(c) \cup WrittenBy(c) \subseteq Selected(c)
    /\ \A c, d \in Cycles : \A n \in Notifs :
          c < d /\ n \in WrittenBy(c) => n \notin Selected(d)
    /\ \A c, d \in Cycles : \A n \in Notifs :
          c < d /\ n \in CalledBy(c) /\ n \in CalledBy(d)
          => cy[c].pc = "raised" /\ n \notin WrittenBy(c)
    /\ \A c, d \in Cycles :
          /\ d = c + 1
          /\ cy[c].pc = "returned"
          /\ cy[d].pc \in {"returned", "raised"} /\ cy[d].error # "query"
          /\ \A n \in Notifs : InWindow(n, d) => InWindow(n, c)
          => /\ cy[d].result = 0
             /\ calls[d] = <<>> /\ writes[d] = <<>> /\ issued[d] = {}

\* a second cycle has returned 0 after a first one dispatched a
\* notification whose fire time lies in both windows
C3_Witness ==
    \E c, d \in Cycles : \E n \in Notifs :
        /\ d = c + 1
        /\ cy[c].pc = "returned" /\ cy[d].pc = "returned"
        /\ n \in CalledBy(c) /\ InWindow(n, c) /\ InWindow(n, d)
        /\ \A m \in Notifs : InWindow(m, d) => InWindow(m, c)
        /\ cy[d].result = 0

\* --------------------------------------------------------------- C4
\* the recipient whose processing made cycle c raise, if one did
FailedRecipient(c) ==
    IF cy[c].pc = "raised" /\ cy[c].users # <<>> THEN userId(c) ELSE NoUser

\* C4: a failure while one recipient is processed does not stop the
\* cycle: with several recipient groups due, the cycle ends by returning a
\* count, and the due notifications of every recipient other than the one
\* whose processing failed are terminal.
C4_RecipientFailureContained ==
    \A c \in Cycles :
        cy[c].pc \in Finished /\ Len(cy[c].users) > 1 =>
            /\ cy[c].pc = "returned"
            /\ \A n \in Selected(c) :
                  nOwner[n] # FailedRecipient(c) =>
                      notif[n].status \in Terminal

\* --------------------------------------------------------------- C5
\* C5: when the due query rejects, the cycle raises (the handler answers
\* 500) and has written no status, called no gateway, deleted no address.
C5_QueryFailureAborts ==
    \A c \in Cycles :
        cy[c].error = "query" =>
            /\ cy[c].pc = "raised" /\ cy[c].http = 500 /\ cy[c].result = -1
            /\ calls[c] = <<>> /\ writes[c] = <<>> /\ issued[c] = {}

\* the query of a cycle rejected while a notification was due for it
C5_Witness ==
    \E c \in Cycles : \E n \in Notifs :
        /\ cy[c].error = "query"
        /\ InWindow(n, c) /\ notif[n].status = "scheduled"

\* --------------------------------------------------------------- C6
\* C6: while a cycle runs, a notification whose fire time is outside
\* [now - W, now] keeps every field and is not handed to the gateway.
C6_OutsideWindowUntouched ==
    [][\A c \in Cycles : \A n \in Notifs :
          Running(c) /\ ~InWindow(n, c) =>
              /\ notif'[n] = notif[n]
              /\ n \notin {calls'[c][i].n : i \in DOMAIN calls'[c]}]_vars

\* a cycle has returned after dispatching, and a notification older than
\* its window start is still as it was created
C6_Witness ==
    \E c \in Cycles : \E n \in Notifs :
        /\ cy[c].pc = "returned" /\ calls[c] # <<>>
        /\ nFireAt[n] < Now(c) - W
        /\ notif[n] = FreshDoc

\* --------------------------------------------------------------- C7
\* C7: when the fcmTokens read of a recipient returned no address, the
\* cycle makes no gateway call for that recipient's notifications and
\* leaves each one sent with the note 'No FCM tokens available', with or
\* without a device tag.
C7_NoTokensMarkedSent ==
    \A c \in Cycles : \A n \in Selected(c) :
        SnapshotFor(c, n) = <<>> =>
            /\ n \notin CalledBy(c)
            /\ Passed(c, n) =>
                  /\ notif[n].status = "sent"
                  /\ notif[n].note = NoteNoTokens
                  /\ notif[n].sentAt

\* a tagged and an untagged notification of a recipient without
\* addresses have both been marked
C7_Witness ==
    \E c \in Cycles : \E n, m \in Selected(c) :
        /\ nOwner[n] = nOwner[m] /\ SnapshotFor(c, n) = <<>>
        /\ nDevice[n] = NoDevice /\ nDevice[m] # NoDevice
        /\ Passed(c, n) /\ Passed(c, m)

\* --------------------------------------------------------------- C8
\* C8: for every gateway call that returned per-address outcomes, of
\* whatever kind (broadcast, creating device, other addresses, secondary
\* fallback), once the cycle is past the notification a deletion has been
\* issued for every address the call reported failed.  Stated for the
\* behaviours in which the store has rejected nothing.
C8_FailedAddressesRemoved ==
    \A c \in Cycles : \A i \in DOMAIN calls[c] :
        LET k == calls[c][i]
        IN  faults = 0 /\ k.ok /\ Passed(c, k.n) =>
                \A t \in failedTokens(k.targets, k.responses) :
                    [user |-> nOwner[k.n], token |-> t] \in issued[c]

\* --------------------------------------------------------------- C9
\* C9: for a notification without device tag whose recipient has an
\* address, the gateway is called once, with the whole snapshot; on
\* per-address outcomes the notification is sent with the two counts, and
\* an address reported failed is gone once its deletion has resolved.
C9_Broadcast ==
    \A c \in Cycles : \A n \in Selected(c) :
        /\ nDevice[n] = NoDevice
        /\ SnapshotFor(c, n) \notin {<<>>, NotRead}
        /\ Passed(c, n)
        => LET K == CallsFor(c, n)
           IN  /\ Len(K) = 1
               /\ K[1].targets = SnapshotFor(c, n)
               /\ K[1].ok =>
                     /\ notif[n].status = "sent"
                     /\ notif[n].successCount = successCount(K[1].responses)
                     /\ notif[n].failureCount = failureCount(K[1].responses)
                     /\ \A t \in failedTokens(K[1].targets, K[1].responses) :
                           LET d == [user |-> nOwner[n], token |-> t]
                           IN  d \notin deletes /\ d \notin dropped
                               => t \notin registry

\* --------------------------------------------------------------- C10
\* C10: for a tagged notification with a matching address in the
\* snapshot, the first call targets exactly the matching addresses; when
\* it fails wholesale the notification is recorded failed, a second call
\* goes to exactly the other addresses if there are any, and the status
\* is failed whatever the second call returns.
C10_DeviceThenFallback ==
    \A c \in Cycles : \A n \in Selected(c) :
        /\ nDevice[n] # NoDevice
        /\ SnapshotFor(c, n) # NotRead
        /\ Len(SelectSeq(SnapshotFor(c, n),
                         LAMBDA t : tDevice[t] = nDevice[n])) > 0
        => LET K == CallsFor(c, n)
               matching == SelectSeq(SnapshotFor(c, n),
                                     LAMBDA t : tDevice[t] = nDevice[n])
               others   == SelectSeq(SnapshotFor(c, n),
                                     LAMBDA t : tDevice[t] # nDevice[n])
           IN  /\ Len(K) >= 1 => K[1].targets = matching
               /\ Len(K) >= 2 =>
                     /\ K[2].targets = others /\ Len(K) = 2
                     /\ notif[n].status = "failed"
               /\ Passed(c, n) /\ ~K[1].ok =>
                     /\ notif[n].status = "failed"
                     /\ notif[n].note = NoteDeviceFail
                     /\ Len(K) = IF Len(others) > 0 THEN 2 ELSE 1

\* the send to the creating device failed wholesale, the second call
\* reached one of the other addresses, and the notification is failed
C10_Witness ==
    \E c \in Cycles : \E n \in Selected(c) :
        /\ Passed(c, n)
        /\ Len(CallsFor(c, n)) = 2
        /\ ~CallsFor(c, n)[1].ok
        /\ CallsFor(c, n)[2].ok
        /\ successCount(CallsFor(c, n)[2].responses) > 0
        /\ notif[n].status = "failed"

\* --------------------------------------------------------------- C11
\* the successful addresses over the calls of a log that returned
\* per-address outcomes
RECURSIVE SumSuccess(_)
SumSuccess(K) ==
    IF K = <<>> THEN 0
    ELSE (IF Head(K).ok THEN successCount(Head(K).responses) ELSE 0)
         + SumSuccess(Tail(K))

\* the calls of cycle c that reported address t failed
ReportedFailed(c, t) ==
    {i \in DOMAIN calls[c] :
        calls[c][i].ok
        /\ t \in failedTokens(calls[c][i].targets, calls[c][i].responses)}

\* C11: for a tagged notification whose first call went to the matching
\* addresses and returned per-address outcomes, once the cycle is past it
\* the notification is sent with sentToDevice equal to its tag, whatever
\* the outcomes; no second call was made for it, the running count is the
\* number of successful addresses, and a deletion was issued for one of
\* its targets only if a call reported that address failed.
C11_MatchingDeviceSent ==
    \A c \in Cycles : \A n \in Selected(c) :
        LET K == CallsFor(c, n)
        IN  /\ nDevice[n] # NoDevice
            /\ Len(K) >= 1 /\ K[1].kind = "device" /\ K[1].ok
            /\ Passed(c, n)
            => /\ notif[n].status = "sent"
               /\ notif[n].sentToDevice = nDevice[n]
               /\ Len(K) = 1
               /\ cy[c].totalSent = SumSuccess(calls[c])
               /\ \A t \in Range(K[1].targets) :
                     [user |-> nOwner[n], token |-> t] \in issued[c]
                     => ReportedFailed(c, t) # {}

\* --------------------------------------------------------------- C12
\* C12: for a tagged notification whose recipient's snapshot holds no
\* address of that device but at least one other address, once the cycle
\* is past it the gateway was called exactly once, with all the other
\* addresses; on per-address outcomes the notification is sent with the
\* no-match note and no sentToDevice, on a wholesale failure it is failed.
C12_NoMatchSentToOthers ==
    \A c \in Cycles : \A n \in Selected(c) :
        /\ nDevice[n] # NoDevice
        /\ SnapshotFor(c, n) # NotRead
        /\ deviceTokens(SnapshotFor(c, n), nDevice[n]) = <<>>
        /\ otherTokens(SnapshotFor(c, n), nDevice[n]) # <<>>
        /\ Passed(c, n)
        => LET K == CallsFor(c, n)
           IN  /\ Len(K) = 1
               /\ K[1].targets = otherTokens(SnapshotFor(c, n), nDevice[n])
               /\ K[1].ok =>
                     /\ notif[n].status = "sent"
                     /\ notif[n].note = NoteNoMatch
                     /\ notif[n].sentToDevice = NoDevice
               /\ ~K[1].ok => notif[n].status = "failed"

\* --------------------------------------------------------------- C13
\* C13 as stated: a tagged notification whose recipient's snapshot holds
\* neither an address of that device nor any other address is, once the
\* cycle is past it, failed with the note 'No tokens available for this
\* user'.
C13_NoAddressMarkedFailed ==
    \A c \in Cycles : \A n \in Selected(c) :
        /\ nDevice[n] # NoDevice
        /\ SnapshotFor(c, n) # NotRead
        /\ deviceTokens(SnapshotFor(c, n), nDevice[n]) = <<>>
        /\ otherTokens(SnapshotFor(c, n), nDevice[n]) = <<>>
        /\ Passed(c, n)
        => /\ notif[n].status = "failed"
           /\ notif[n].note = NoteNoneAtAll

\* C13 as amended: such a notification is sent with the note 'No FCM
\* tokens available', never failed, with no gateway call made for it, and
\* no notification ever carries the note 'No tokens available for this
\* user'.
C13_NoAddressTaggedMarkedSent ==
    /\ \A c \in Cycles : \A n \in Selected(c) :
          /\ nDevice[n] # NoDevice
          /\ SnapshotFor(c, n) # NotRead
          /\ deviceTokens(SnapshotFor(c, n), nDevice[n]) = <<>>
          /\ otherTokens(SnapshotFor(c, n), nDevice[n]) = <<>>
          /\ Passed(c, n)
          => /\ notif[n].status = "sent"
             /\ notif[n].note = NoteNoTokens
             /\ ~notif[n].failedAt
             /\ CallsFor(c, n) = <<>>
    /\ \A n \in Notifs : notif[n].note # NoteNoneAtAll

\* the cycle is past a tagged notification of a recipient whose snapshot
\* was empty, while another recipient of the same cycle had an address
C13_Witness ==
    \E c \in Cycles : \E n \in Selected(c) :
        /\ nDevice[n] # NoDevice
        /\ SnapshotFor(c, n) = <<>>
        /\ Passed(c, n)
        /\ notif[n].sentAt
        /\ \E m \in CalledBy(c) : nOwner[m] # nOwner[n]

\* --------------------------------------------------------------- C14
\* C14: over any sequence and interleaving of cycles, once the status of
\* a notification is sent or failed no step changes any field of that
\* notification: its status is written once and its delivery metadata is
\* never overwritten.
C14_MutatedOnce ==
    [][\A n \in Notifs :
          notif[n].status \in Terminal => notif'[n] = notif[n]]_vars

\* --------------------------------------------------------------- C15
\* C15: the running count of a cycle is at every moment the number of
\* successful addresses over its calls that returned per-address outcomes,
\* secondary sends included; a cycle that returned answers 200 with that
\* sum as its count, and a cycle whose due query returned nothing made no
\* call and returns 0.
C15_CountIsSumOfSuccesses ==
    \A c \in Cycles :
        /\ cy[c].totalSent = SumSuccess(calls[c])
        /\ cy[c].pc = "returned" =>
              /\ cy[c].http = 200
              /\ cy[c].result = SumSuccess(calls[c])
              /\ cy[c].due = <<>> => calls[c] = <<>> /\ cy[c].result = 0

\* a returned cycle whose count comes from a secondary send made for a
\* notification recorded failed after a call that failed wholesale, with
\* another recipient that had no address
C15_Witness ==
    \E c \in Cycles : \E i, j \in DOMAIN calls[c] :
        /\ cy[c].pc = "returned" /\ cy[c].result > 0
        /\ ~calls[c][i].ok /\ calls[c][i].n = calls[c][j].n
        /\ calls[c][j].kind = "fallback" /\ calls[c][j].ok
        /\ successCount(calls[c][j].responses) = cy[c].result
        /\ notif[calls[c][j].n].status = "failed"
        /\ \E m \in Selected(c) : SnapshotFor(c, m) = <<>>

\* --------------------------------------------------------------- C16
\* C16: a step in which a deletion rejects changes no notification, no
\* cycle, no call and no write; every deletion a cycle issued follows a
\* sent status that cycle had already written for that recipient; and as
\* long as deletions are the only store operations that rejected, no
\* cycle has raised, every returned cycle left all it selected terminal,
\* and no notification is failed for a store error.
C16_DeletionFailureContained ==
    [][/\ dropped' # dropped =>
             /\ notif' = notif /\ cy' = cy
             /\ calls' = calls /\ writes' = writes /\ registry' = registry
       /\ \A c \in Cycles : \A d \in issued'[c] :
             \E i \in DOMAIN writes'[c] :
                 /\ nOwner[writes'[c][i].n] = d.user
                 /\ writes'[c][i].status = "sent"
       /\ Cardinality(dropped') = faults' =>
             /\ \A c \in Cycles :
                   /\ cy'[c].pc # "raised"
                   /\ cy'[c].pc = "returned" =>
                         \A n \in Range(cy'[c].due) :
                             notif'[n].status \in Terminal
             /\ \A n \in Notifs :
                   notif'[n].status = "failed" => notif'[n].error = "gateway"
      ]_vars

\* a deletion a cycle issued has rejected, the address is still
\* registered, nothing else rejected, and the cycle went on to return
\* with the notification sent and a later notification processed too
C16_Witness ==
    \E c \in Cycles : \E d \in dropped \cap issued[c] :
        /\ d.token \in registry
        /\ Cardinality(dropped) = faults
        /\ cy[c].pc = "returned"
        /\ Len(writes[c]) = 2
        /\ nOwner[writes[c][1].n] = d.user
        /\ writes[c][1].status = "sent"
        /\ notif[writes[c][1].n].status = "sent"

\* --------------------------------------------------------------- C17
\* C17: for two notifications of one recipient selected by a cycle, the
\* one the due query returned first has its status written before the
\* gateway is called or a status is written for the other, and in the
\* cycle's call log and write log every entry of the first precedes
\* every entry of the second.
C17_SequentialPerRecipient ==
    \A c \in Cycles : \A n, m \in Selected(c) :
        /\ nOwner[n] = nOwner[m]
        /\ IndexOf(cy[c].due, n) < IndexOf(cy[c].due, m)
        => /\ m \in CalledBy(c) \cup WrittenBy(c) => n \in WrittenBy(c)
           /\ \A i, j \in DOMAIN calls[c] :
                 calls[c][i].n = n /\ calls[c][j].n = m => i < j
           /\ \A i, j \in DOMAIN writes[c] :
                 writes[c][i].n = n /\ writes[c][j].n = m => i < j

\* two notifications of one recipient, the first with a secondary send
\* after its failed mark, the second handed to the gateway after that
C17_Witness ==
    \E c \in Cycles : \E n, m \in Selected(c) :
        /\ nOwner[n] = nOwner[m]
        /\ IndexOf(cy[c].due, n) < IndexOf(cy[c].due, m)
        /\ Len(CallsFor(c, n)) = 2
        /\ m \in CalledBy(c)
        /\ n \in WrittenBy(c)

\* --------------------------------------------------------------- C18
\* the notifications cycle c selected and left without a status when it
\* raised while processing a recipient
LeftPending(c) ==
    IF cy[c].pc = "raised" THEN Selected(c) \ WrittenBy(c) ELSE {}

\* C18 as stated: a notification a cycle left pending when it raised is
\* unchanged until the next cycle starts, and once the next cycle whose
\* window holds its fire time has run its due query and finished, the
\* notification was selected by it and is terminal.
C18_RetriedToTerminal ==
    \A c, d \in Cycles : \A n \in LeftPending(c) :
        d = c + 1 =>
            /\ cy[d].pc = "idle" => notif[n] = FreshDoc
            /\ /\ InWindow(n, d)
               /\ cy[d].pc \in {"returned", "raised"}
               /\ cy[d].error # "query"
               => /\ n \in Selected(d)
                  /\ notif[n].status \in Terminal

\* C18 as amended: such a notification is unchanged until the next cycle
\* starts; the next cycle selects it if its window holds the fire time
\* and its due query resolves; it is terminal, written by that cycle, if
\* that cycle returns a count, and until a further cycle starts it is
\* changed only if that cycle wrote it; a next cycle whose window no
\* longer holds the fire time neither selects nor changes it.
C18_PendingThenReselected ==
    \A c, d \in Cycles : \A n \in LeftPending(c) :
        d = c + 1 =>
            /\ cy[d].pc = "idle" => notif[n] = FreshDoc
            /\ /\ InWindow(n, d)
               /\ cy[d].pc \notin {"idle", "rejected"}
               /\ cy[d].error # "query"
               => /\ n \in Selected(d)
                  /\ cy[d].pc = "returned" =>
                        n \in WrittenBy(d) /\ notif[n].status \in Terminal
                  /\ started = d /\ n \notin WrittenBy(d) => notif[n] = FreshDoc
            /\ ~InWindow(n, d) => n \notin Selected(d) /\ notif[n] = FreshDoc

\* the fcmTokens read or a status write of a recipient rejected, the cycle
\* raised with a notification of that recipient unwritten, and the next
\* cycle has written it and returned
C18_Witness ==
    \E c, d \in Cycles : \E n \in LeftPending(c) :
        /\ d = c + 1
        /\ cy[c].error = "store"
        /\ nOwner[n] = FailedRecipient(c)
        /\ InWindow(n, d)
        /\ cy[d].pc = "returned"
        /\ n \in WrittenBy(d)

\* --------------------------------------------------------------- C19
\* C19: when a call of a cycle reported an address failed, no later call
\* of the same cycle for another notification of that recipient holds
\* that address among its targets after the address has left the
\* registry.
C19_TargetsAreRegistered ==
    \A c \in Cycles : \A i, j \in DOMAIN calls[c] :
        /\ i < j
        /\ calls[c][i].ok
        /\ calls[c][i].n # calls[c][j].n
        /\ nOwner[calls[c][i].n] = nOwner[calls[c][j].n]
        => failedTokens(calls[c][i].targets, calls[c][i].responses)
              \cap calls[c][j].gone = {}

\* --------------------------------------------------------------- C20
\* C20: a notification whose status a cycle wrote is failed only if that
\* cycle's first gateway call for it failed wholesale; when the first
\* call returned per-address outcomes the notification is not failed,
\* whatever the store did with the write of the sent status.
C20_FailedOnlyOnWholesaleFailure ==
    \A c \in Cycles : \A n \in WrittenBy(c) :
        notif[n].status = "failed" =>
            /\ CallsFor(c, n) # <<>>
            /\ ~CallsFor(c, n)[1].ok

\* --------------------------------------------------------------- C21
\* C21: a cycle calls the gateway at most twice for one notification, and
\* when it called twice the first call went to the matching addresses and
\* failed wholesale and the second went to the other addresses; after a
\* first call that returned per-address outcomes there is no second call.
C21_SecondCallOnlyAfterWholesaleFailure ==
    \A c \in Cycles : \A n \in Selected(c) :
        LET K == CallsFor(c, n)
        IN  /\ Len(K) <= 2
            /\ Len(K) = 2 =>
                  /\ K[1].kind = "device" /\ ~K[1].ok
                  /\ K[2].kind = "fallback"
                  /\ K[2].targets = otherTokens(SnapshotFor(c, n), nDevice[n])

\* --------------------------------------------------------------- C22
\* the recipient groups of cycle c that hold notification n
GroupsOf(c, n) ==
    {g \in DOMAIN cy[c].users :
        n \in Range(notificationsByUser(cy[c].due, cy[c].users[g]))}

\* C22: every call a cycle makes for a notification targets only
\* addresses enrolled under that notification's recipient; every deletion
\* a cycle issued names a recipient and an address of that recipient that
\* a call for that recipient reported failed; an address is gone from the
\* registry only after such a deletion; and every notification a cycle
\* selected is in exactly one recipient group, that of its owner, and is
\* written at most once by the cycle.
C22_RecipientsIsolated ==
    \A c \in Cycles :
        /\ \A i \in DOMAIN calls[c] : \A t \in Range(calls[c][i].targets) :
              tOwner[t] = nOwner[calls[c][i].n]
        /\ \A d \in issued[c] :
              /\ tOwner[d.token] = d.user
              /\ \E i \in ReportedFailed(c, d.token) :
                    nOwner[calls[c][i].n] = d.user
        /\ \A t \in Tokens :
              tOwner[t] # NoUser /\ t \notin registry =>
                  \E b \in Cycles :
                      [user |-> tOwner[t], token |-> t] \in issued[b]
        /\ \A n \in Selected(c) :
              /\ Cardinality(GroupsOf(c, n)) = 1
              /\ \A g \in GroupsOf(c, n) : cy[c].users[g] = nOwner[n]
              /\ Cardinality({i \in DOMAIN writes[c] : writes[c][i].n = n}) <= 1

\* one cycle called the gateway for two recipients; the address of one
\* was reported failed and is gone, the address of the other is still
\* registered
C22_Witness ==
    \E c \in Cycles : \E i, j \in DOMAIN calls[c] :
        /\ nOwner[calls[c][i].n] # nOwner[calls[c][j].n]
        /\ \E t \in Range(calls[c][i].targets) :
              t \notin registry /\ ReportedFailed(c, t) # {}
        /\ \E t \in Range(calls[c][j].targets) : t \in registry

====
